---- MODULE Spec2Model ----
(***************************************************************************)
(* Model of pkg/services/cleanup/cleanup.go: the CleanUpService of a       *)
(* server instance.  Run performs one temp-file cleanup pass, creates a    *)
(* 10-minute ticker and then, on every tick, calls the five cleanup        *)
(* operations in sequence, the last one under a named server lock, until   *)
(* its context is cancelled.                                               *)
(*                                                                         *)
(* Time is counted in minutes.  A cleanup operation takes no measurable    *)
(* time on this scale: the clock advances only while every running         *)
(* instance is blocked in the select of Run.                               *)
(***************************************************************************)
EXTENDS Integers, Sequences, FiniteSets, TLC

VARIABLES
    now,        \* the wall clock (time.Now()), in minutes
    cfg,        \* setting.Cfg, read-only after load
    up,         \* the server instances that are deployed
    pc,         \* pc[i]: where instance i is in Run
    ctxErr,     \* ctxErr[i]: ctx.Err() of the context handed to Run
    ret,        \* ret[i]: the value Run returned, once it has returned
    tickC,      \* tickC[i]: ticker.C (a channel of capacity 1) holds a tick
    nextFire,   \* nextFire[i]: when the ticker of instance i fires next
    dirExists,  \* whether Cfg.ImagesDir exists
    files,      \* the entries of Cfg.ImagesDir: file name -> ModTime
    invites,    \* the temp_user table: id -> created_at
    lease,      \* the server lock table: lock name -> end of the current lease
    ticks,      \* ticks[i]: ticks instance i has received from ticker.C
    calls,      \* calls[i][op]: invocations of op by instance i
    trace,      \* trace[i]: the operations invoked in the current tick, in order
    lastOp,     \* lastOp[i]: the outcome of the operation that returned last
    pass,       \* what the most recent run of cleanUpTmpFiles saw and did
    lockErr,    \* lockErr[i]: the error LockAndExecute returned to instance i
    login,      \* the most recent run of deleteOldLoginAttempts, on any instance
    bodyTick,   \* bodyTick[i]: the tick of i in which deleteOldLoginAttempts ran last
    cancelMid   \* cancelMid[i]: the context of i was cancelled in the middle of a tick

vars == <<now, cfg, up, pc, ctxErr, ret, tickC, nextFire, dirExists, files,
          invites, lease, ticks, calls, trace, lastOp, pass, lockErr, login,
          bodyTick, cancelMid>>

(***************************************************************************)
(* Bounds of the model.                                                    *)
(***************************************************************************)
MaxTime == 20                   \* the clock stops here
ClockStep == 5                  \* the clock advances by at most this much

Instances == {1, 2}
Files == {"a.png", "b.png"}
Lifetimes == {0, 5, 10}         \* values of Cfg.TempDataLifetime
InviteDays == {0, 3}            \* values of Cfg.UserInviteMaxLifetimeDays

\* What ends the context of an instance: its owner cancels the first one, the
\* second one runs into its deadline.
CtxErrOf == (1 :> "context canceled") @@ (2 :> "context deadline exceeded")

(***************************************************************************)
(* Constants of the program.                                               *)
(***************************************************************************)
TickMinutes == 10               \* time.NewTicker(time.Minute * 10)
LeaseMinutes == 10              \* the lease handed to LockAndExecute
LoginAttemptMinutes == 10       \* time.Now().Add(time.Minute * -10)
DayMinutes == 1440              \* 24 * time.Hour
LockName == "delete old login attempts"

Ops == {"tmp", "snap", "dash", "invite", "lock"}

EmptyDir == [f \in {} |-> 0]

Configs ==
    [TempDataLifetime : Lifetimes,
     UserInviteMaxLifetimeDays : InviteDays,
     DisableBruteForceLoginProtection : BOOLEAN]

\* The rows of temp_user when the instances start: created 4 days ago, 2 days
\* ago and just now, and one created 3 days before the first tick of an
\* instance that starts at once.
InitInvites ==
    (1 :> (0 - 4 * DayMinutes)) @@ (2 :> (0 - 2 * DayMinutes)) @@ (3 :> 0)
        @@ (4 :> (TickMinutes - 3 * DayMinutes))

\* The row a user may be invited with while the service runs.
NewInvites == {5}

\* The images directories an instance may find when it starts.
InitDirs ==
    { EmptyDir,
      ("a.png" :> (0 - 10)),
      ("a.png" :> (0 - 10)) @@ ("b.png" :> 0) }

NoOp == [op |-> "none", failed |-> FALSE, level |-> "none", log |-> ""]
NoPass ==
    [at |-> 0, outcome |-> "none", listed |-> EmptyDir, toDelete |-> {},
     attempted |-> {}, failed |-> {}, deleted |-> 0, kept |-> 0]
NoLogin ==
    [by |-> 0, at |-> 0, dispatched |-> FALSE, cutoff |-> 0, failed |-> FALSE,
     level |-> "none", log |-> ""]

InitWith(ups, configs, dirs, exists) ==
    /\ now = 0
    /\ cfg \in configs
    /\ up \in ups
    /\ pc = [i \in Instances |-> IF i \in up THEN "start" ELSE "off"]
    /\ ctxErr = [i \in Instances |-> "nil"]
    /\ ret = [i \in Instances |-> "running"]
    /\ tickC = [i \in Instances |-> FALSE]
    /\ nextFire = [i \in Instances |-> 0]
    /\ dirExists \in exists
    /\ files \in IF dirExists THEN dirs ELSE {EmptyDir}
    /\ invites = InitInvites
    /\ lease = [n \in {LockName} |-> 0]
    /\ ticks = [i \in Instances |-> 0]
    /\ calls = [i \in Instances |-> [o \in Ops |-> 0]]
    /\ trace = [i \in Instances |-> <<>>]
    /\ lastOp = [i \in Instances |-> NoOp]
    /\ pass = NoPass
    /\ lockErr = [i \in Instances |-> FALSE]
    /\ login = NoLogin
    /\ bodyTick = [i \in Instances |-> 0]
    /\ cancelMid = [i \in Instances |-> FALSE]

(***************************************************************************)
(* The expiration policy of temp files.                                    *)
(***************************************************************************)
\* A file as old as the lifetime counted as expired.
shouldCleanupAtLifetime(filemtime, t) ==
    IF cfg.TempDataLifetime = 0
    THEN FALSE
    ELSE filemtime + cfg.TempDataLifetime <= t

\* The lifetime of zero not taken as "disabled".
shouldCleanupZeroLifetime(filemtime, t) ==
    filemtime + cfg.TempDataLifetime < t

\* filemtime.Add(lifetime).Before(now), and never with a lifetime of zero.
shouldCleanupTempFile(filemtime, t) ==
    IF cfg.TempDataLifetime = 0
    THEN FALSE
    ELSE filemtime + cfg.TempDataLifetime < t

\* The files of the listing `listed` that the loop over files puts in toDelete.
StaleFiles(listed, t) ==
    {f \in DOMAIN listed : shouldCleanupTempFile(listed[f], t)}

\* The "kept" figure of the closing debug entry of a pass.
KeptLogged(listed, toDelete) == Cardinality(DOMAIN listed)

\* The "deleted" figure of the closing debug entry of a pass.
DeletedLogged(listed, toDelete) == Cardinality(toDelete)

Without(dir, gone) == [f \in (DOMAIN dir) \ gone |-> dir[f]]

\* The loop over toDelete given up at the first os.Remove that fails.
AttemptedUntilFailure(toDelete, failed) ==
    IF failed = {} THEN toDelete ELSE {CHOOSE f \in failed : TRUE}

\* The files the loop over toDelete calls os.Remove for, when os.Remove fails
\* for those of `failed`: all of toDelete.
Attempted(toDelete, failed) == toDelete

\* os.Remove called for another path than that of the file.
RemovedNothing(attempted, failed) == {}

\* The files that are gone after the loop: those os.Remove was called for
\* and did not fail for.
Removed(attempted, failed) == attempted \ failed

(***************************************************************************)
(* cleanUpTmpFiles: one pass over Cfg.ImagesDir.  os.Remove may fail for   *)
(* any of the files it is asked to remove.                                 *)
(***************************************************************************)
cleanUpTmpFiles(i) ==
    \/ /\ ~dirExists                        \* os.Stat: IsNotExist
       /\ pass' = [NoPass EXCEPT !.at = now, !.outcome = "nodir"]
       /\ lastOp' = [lastOp EXCEPT ![i] = [NoOp EXCEPT !.op = "tmp"]]
       /\ UNCHANGED files
    \/ /\ dirExists                         \* ioutil.ReadDir fails
       /\ pass' = [NoPass EXCEPT !.at = now, !.outcome = "readerr"]
       /\ lastOp' = [lastOp EXCEPT ![i] =
                        [op |-> "tmp", failed |-> TRUE, level |-> "error",
                         log |-> "Problem reading image dir"]]
       /\ UNCHANGED files
    \/ /\ dirExists
       /\ LET toDelete == StaleFiles(files, now)
          IN  \E failed \in SUBSET toDelete :
                /\ files' = Without(files, Removed(Attempted(toDelete, failed),
                                                   failed))
                /\ pass' = [at |-> now, outcome |-> "done",
                            listed |-> files, toDelete |-> toDelete,
                            attempted |-> Attempted(toDelete, failed),
                            failed |-> failed \cap Attempted(toDelete, failed),
                            deleted |-> DeletedLogged(files, toDelete),
                            kept |-> KeptLogged(files, toDelete)]
                /\ lastOp' = [lastOp EXCEPT ![i] =
                                 [op |-> "tmp", failed |-> failed # {},
                                  level |-> "debug",
                                  log |-> "Found old rendered image to delete"]]

(***************************************************************************)
(* The delete operations that go through the bus.  bus.Dispatch either     *)
(* fails or reports the rows it deleted.                                   *)
(***************************************************************************)
Dispatched(op, err, errMsg, okMsg) ==
    [op |-> op, failed |-> err,
     level |-> IF err THEN "error" ELSE "debug",
     log |-> IF err THEN errMsg ELSE okMsg]

deleteExpiredSnapshots(i) ==
    \E err \in BOOLEAN :
        lastOp' = [lastOp EXCEPT ![i] =
                      Dispatched("snap", err, "Failed to delete expired snapshots",
                                 "Deleted expired snapshots")]

deleteExpiredDashboardVersions(i) ==
    \E err \in BOOLEAN :
        lastOp' = [lastOp EXCEPT ![i] =
                      Dispatched("dash", err,
                                 "Failed to delete expired dashboard versions",
                                 "Deleted old/expired dashboard versions")]

\* createdBefore := time.Now().Add(-maxInviteLifetime)
InviteCutoff(t) == t - cfg.UserInviteMaxLifetimeDays * DayMinutes

\* The rows created at the cutoff left alone.
ExpiredInvitesBefore(cutoff) == {r \in DOMAIN invites : invites[r] < cutoff}

\* A lifetime of zero days taken as "disabled", as for the temp files.
ExpiredInvitesZeroDisables(cutoff) ==
    IF cfg.UserInviteMaxLifetimeDays = 0 THEN {}
    ELSE {r \in DOMAIN invites : invites[r] <= cutoff}

\* DELETE from temp_user WHERE created_at <= ?
ExpiredInvites(cutoff) == {r \in DOMAIN invites : invites[r] <= cutoff}

(***************************************************************************)
(* deleteExpiredUserInvites: dbSession.Exec may fail (the error is         *)
(* returned, nothing more is logged), and so may res.RowsAffected (the     *)
(* error is logged, nil is returned).  Run ignores what is returned.       *)
(***************************************************************************)
deleteExpiredUserInvites(i) ==
    \/ /\ lastOp' = [lastOp EXCEPT ![i] =
                        [op |-> "invite", failed |-> TRUE, level |-> "debug",
                         log |-> "starting cleanup of expired user invites"]]
       /\ UNCHANGED invites
    \/ /\ invites' = Without(invites, ExpiredInvites(InviteCutoff(now)))
       /\ \E err \in BOOLEAN :
            lastOp' = [lastOp EXCEPT ![i] =
                          Dispatched("invite", err,
                                     "failed to cleanup expired user invites",
                                     "cleanup of expired user invites done")]

(***************************************************************************)
(* deleteOldLoginAttempts, the body handed to LockAndExecute.              *)
(***************************************************************************)
\* The command dispatched whether or not the protection is disabled.
deleteOldLoginAttemptsAnyway(i) ==
    /\ bodyTick' = [bodyTick EXCEPT ![i] = ticks[i]]
    /\ \E err \in BOOLEAN :
          login' = [by |-> i, at |-> now, dispatched |-> TRUE,
                    cutoff |-> now - LoginAttemptMinutes, failed |-> err,
                    level |-> IF err THEN "error" ELSE "debug",
                    log |-> IF err
                            THEN "Problem deleting expired login attempts"
                            ELSE "Deleted expired login attempts"]

deleteOldLoginAttempts(i) ==
    /\ bodyTick' = [bodyTick EXCEPT ![i] = ticks[i]]
    /\ IF cfg.DisableBruteForceLoginProtection
       THEN login' = [NoLogin EXCEPT !.by = i, !.at = now]
       ELSE \E err \in BOOLEAN :
              login' = [by |-> i, at |-> now, dispatched |-> TRUE,
                        cutoff |-> now - LoginAttemptMinutes, failed |-> err,
                        level |-> IF err THEN "error" ELSE "debug",
                        log |-> IF err
                                THEN "Problem deleting expired login attempts"
                                ELSE "Deleted expired login attempts"]

(***************************************************************************)
(* The server lock: LockAndExecute(name, maxInterval, fn) runs fn and      *)
(* returns nil if no lease on `name` is running, starting a lease of       *)
(* maxInterval; otherwise it returns an error and does not run fn.         *)
(***************************************************************************)
LockFree(name) == now >= lease[name]

LockAndExecute(i, name, maxInterval) ==
    IF LockFree(name)
    THEN /\ lease' = [lease EXCEPT ![name] = now + maxInterval]
         /\ lockErr' = [lockErr EXCEPT ![i] = FALSE]
         /\ deleteOldLoginAttempts(i)
    ELSE /\ lockErr' = [lockErr EXCEPT ![i] = TRUE]
         /\ UNCHANGED <<lease, login, bodyTick>>

(***************************************************************************)
(* Run.                                                                    *)
(***************************************************************************)
\* The startup pass followed by the rest of a tick.
AfterStartWholeTick == "snap"

\* Where Run is after the startup pass: in the select.
AfterStart == "select"

\* The calls of the tick in another order.
AfterSwapped(op, failed, cancelled) ==
    CASE op = "tmp" -> "dash"
      [] op = "dash" -> "snap"
      [] op = "snap" -> "invite"
      [] op = "invite" -> "lock"
      [] op = "lock" -> "lockret"
      [] OTHER -> "select"

\* The rest of the tick given up once the context is cancelled.
AfterCheckingCtx(op, failed, cancelled) ==
    IF cancelled THEN "select"
    ELSE CASE op = "tmp" -> "snap"
           [] op = "snap" -> "dash"
           [] op = "dash" -> "invite"
           [] op = "invite" -> "lock"
           [] op = "lock" -> "lockret"
           [] OTHER -> "select"

\* The rest of the tick given up when an operation fails.
AfterAbortOnError(op, failed, cancelled) ==
    IF failed THEN "select"
    ELSE CASE op = "tmp" -> "snap"
           [] op = "snap" -> "dash"
           [] op = "dash" -> "invite"
           [] op = "invite" -> "lock"
           [] op = "lock" -> "lockret"
           [] OTHER -> "select"

\* Run given up when an operation fails.
AfterReturnOnError(op, failed, cancelled) ==
    IF failed THEN "done"
    ELSE CASE op = "tmp" -> "snap"
           [] op = "snap" -> "dash"
           [] op = "dash" -> "invite"
           [] op = "invite" -> "lock"
           [] op = "lock" -> "lockret"
           [] OTHER -> "select"

\* Where Run goes when `op` has returned; `failed` tells whether it failed and
\* `cancelled` whether the context is cancelled by then.  The case of
\* ticker.C is straight-line code: neither matters.
After(op, failed, cancelled) ==
    CASE op = "tmp" -> "snap"
      [] op = "snap" -> "dash"
      [] op = "dash" -> "invite"
      [] op = "invite" -> "lock"
      [] op = "lock" -> "lockret"
      [] OTHER -> "select"

Invoke(i, op) ==
    /\ calls' = [calls EXCEPT ![i][op] = @ + 1]
    /\ trace' = [trace EXCEPT ![i] = Append(@, op)]

\* A lease shorter than the interval of the ticker.
LockLeaseShort == LeaseMinutes - ClockStep

\* The lease Run asks for.
LockLease == LeaseMinutes

\* Run returning nil.
RunResultNil(i) == "nil"

\* What Run returns when ctx.Done() is ready: ctx.Err().
RunResult(i) == ctxErr[i]

\* srv.cleanUpTmpFiles(); ticker := time.NewTicker(time.Minute * 10)
RunStart(i) ==
    /\ pc[i] = "start"
    /\ cleanUpTmpFiles(i)
    /\ calls' = [calls EXCEPT ![i]["tmp"] = @ + 1]
    /\ nextFire' = [nextFire EXCEPT ![i] = now + TickMinutes]
    /\ pc' = [pc EXCEPT ![i] = AfterStart]
    /\ UNCHANGED <<now, cfg, up, ctxErr, ret, tickC, dirExists, invites, lease,
                   ticks, trace, lockErr, login, bodyTick, cancelMid>>

\* The runtime delivers a tick; a tick that finds ticker.C full is dropped.
TickerFire(i) ==
    /\ pc[i] \notin {"off", "start", "done"}
    /\ nextFire[i] <= now
    /\ tickC' = [tickC EXCEPT ![i] = TRUE]
    /\ nextFire' = [nextFire EXCEPT ![i] = @ + TickMinutes]
    /\ UNCHANGED <<now, cfg, up, pc, ctxErr, ret, dirExists, files, invites,
                   lease, ticks, calls, trace, lastOp, pass, lockErr, login,
                   bodyTick, cancelMid>>

\* The pass over the temp files left to the holder of the lock.
FirstCallUnlocked(i) == IF lockErr[i] THEN "snap" ELSE "tmp"

\* The first call of the case of ticker.C, whatever became of the lock in
\* the tick before.
FirstCall(i) == "tmp"

\* case <-ticker.C:
SelectTick(i) ==
    /\ pc[i] = "select"
    /\ tickC[i]
    /\ tickC' = [tickC EXCEPT ![i] = FALSE]
    /\ ticks' = [ticks EXCEPT ![i] = @ + 1]
    /\ trace' = [trace EXCEPT ![i] = <<>>]
    /\ pc' = [pc EXCEPT ![i] = FirstCall(i)]
    /\ UNCHANGED <<now, cfg, up, ctxErr, ret, nextFire, dirExists, files,
                   invites, lease, calls, lastOp, pass, lockErr, login,
                   bodyTick, cancelMid>>

\* case <-ctx.Done(): return ctx.Err()
SelectDone(i) ==
    /\ pc[i] = "select"
    /\ ctxErr[i] # "nil"
    /\ ret' = [ret EXCEPT ![i] = RunResult(i)]
    /\ pc' = [pc EXCEPT ![i] = "done"]
    /\ UNCHANGED <<now, cfg, up, ctxErr, tickC, nextFire, dirExists, files,
                   invites, lease, ticks, calls, trace, lastOp, pass, lockErr,
                   login, bodyTick, cancelMid>>

Goto(i, op) ==
    pc' = [pc EXCEPT ![i] = After(op, lastOp'[i].failed, ctxErr[i] # "nil")]

TickTmpFiles(i) ==
    /\ pc[i] = "tmp"
    /\ Invoke(i, "tmp")
    /\ cleanUpTmpFiles(i)
    /\ Goto(i, "tmp")
    /\ UNCHANGED <<now, cfg, up, ctxErr, ret, tickC, nextFire, dirExists,
                   invites, lease, ticks, lockErr, login, bodyTick, cancelMid>>

TickSnapshots(i) ==
    /\ pc[i] = "snap"
    /\ Invoke(i, "snap")
    /\ deleteExpiredSnapshots(i)
    /\ Goto(i, "snap")
    /\ UNCHANGED <<now, cfg, up, ctxErr, ret, tickC, nextFire, dirExists, files,
                   invites, lease, ticks, pass, lockErr, login, bodyTick,
                   cancelMid>>

TickDashboardVersions(i) ==
    /\ pc[i] = "dash"
    /\ Invoke(i, "dash")
    /\ deleteExpiredDashboardVersions(i)
    /\ Goto(i, "dash")
    /\ UNCHANGED <<now, cfg, up, ctxErr, ret, tickC, nextFire, dirExists, files,
                   invites, lease, ticks, pass, lockErr, login, bodyTick,
                   cancelMid>>

TickUserInvites(i) ==
    /\ pc[i] = "invite"
    /\ Invoke(i, "invite")
    /\ deleteExpiredUserInvites(i)
    /\ Goto(i, "invite")
    /\ UNCHANGED <<now, cfg, up, ctxErr, ret, tickC, nextFire, dirExists, files,
                   lease, ticks, pass, lockErr, login, bodyTick, cancelMid>>

\* err := srv.ServerLockService.LockAndExecute(ctx, "delete old login attempts", ...)
TickLock(i) ==
    /\ pc[i] = "lock"
    /\ Invoke(i, "lock")
    /\ LockAndExecute(i, LockName, LockLease)
    /\ pc' = [pc EXCEPT ![i] = After("lock", FALSE, ctxErr[i] # "nil")]
    /\ UNCHANGED <<now, cfg, up, ctxErr, ret, tickC, nextFire, dirExists, files,
                   invites, ticks, lastOp, pass, cancelMid>>

\* The error of LockAndExecute dropped.
LockErrorIgnored(err) == [NoOp EXCEPT !.op = "lock"]

\* What Run logs for the error LockAndExecute returned.
LockErrorLogged(err) ==
    IF err
    THEN [op |-> "lock", failed |-> TRUE, level |-> "error",
          log |-> "failed to lock and execute cleanup of old login attempts"]
    ELSE [NoOp EXCEPT !.op = "lock"]

\* if err != nil { srv.log.Error(...) }, and back to the select
TickLockReturn(i) ==
    /\ pc[i] = "lockret"
    /\ lastOp' = [lastOp EXCEPT ![i] = LockErrorLogged(lockErr[i])]
    /\ pc' = [pc EXCEPT ![i] = After("lockret", lockErr[i], ctxErr[i] # "nil")]
    /\ UNCHANGED <<now, cfg, up, ctxErr, ret, tickC, nextFire, dirExists, files,
                   invites, lease, ticks, calls, trace, pass, lockErr, login,
                   bodyTick, cancelMid>>

(***************************************************************************)
(* The environment.                                                        *)
(***************************************************************************)
\* The owner of the context cancels it, or its deadline passes.
Cancel(i) ==
    /\ pc[i] \notin {"off", "done"}
    /\ ctxErr[i] = "nil"
    /\ ctxErr' = [ctxErr EXCEPT ![i] = CtxErrOf[i]]
    /\ cancelMid' = [cancelMid EXCEPT ![i] = pc[i] \notin {"start", "select"}]
    /\ UNCHANGED <<now, cfg, up, pc, ret, tickC, nextFire, dirExists, files,
                   invites, lease, ticks, calls, trace, lastOp, pass, lockErr,
                   login, bodyTick>>

\* The renderer writes a temp image.
WriteFile(f) ==
    /\ dirExists
    /\ f \notin DOMAIN files
    /\ files' = [g \in DOMAIN files \cup {f} |-> IF g = f THEN now ELSE files[g]]
    /\ UNCHANGED <<now, cfg, up, pc, ctxErr, ret, tickC, nextFire, dirExists,
                   invites, lease, ticks, calls, trace, lastOp, pass, lockErr,
                   login, bodyTick, cancelMid>>

\* A user is invited: a row of temp_user created now.
CreateInvite(r) ==
    /\ r \notin DOMAIN invites
    /\ invites' = [q \in DOMAIN invites \cup {r} |-> IF q = r THEN now ELSE invites[q]]
    /\ UNCHANGED <<now, cfg, up, pc, ctxErr, ret, tickC, nextFire, dirExists,
                   files, lease, ticks, calls, trace, lastOp, pass, lockErr,
                   login, bodyTick, cancelMid>>

Ticking(i) == pc[i] \notin {"off", "start", "done"}

\* The next instant at which something is due.
NextInstant ==
    LET due == {nextFire[i] : i \in {j \in Instances : Ticking(j)}}
        soon == {t \in due : t <= now + ClockStep}
    IN  IF soon = {} THEN now + ClockStep
        ELSE CHOOSE t \in soon : \A u \in soon : t <= u

\* Time passes while every instance waits (or has not started, or is gone).
Advance ==
    /\ \E i \in Instances : pc[i] \notin {"off", "start"}
    /\ \A i \in Instances : pc[i] \in {"off", "start", "select", "done"}
    /\ \A i \in Instances : Ticking(i) => nextFire[i] > now /\ ~tickC[i]
    /\ NextInstant <= MaxTime
    /\ now' = NextInstant
    /\ UNCHANGED <<cfg, up, pc, ctxErr, ret, tickC, nextFire, dirExists, files,
                   invites, lease, ticks, calls, trace, lastOp, pass, lockErr,
                   login, bodyTick, cancelMid>>

(***************************************************************************)
(* Spec: two instances of the server against one database and one images   *)
(* directory, under one configuration.                                     *)
(***************************************************************************)
ClusterConfig ==
    [TempDataLifetime |-> 10, UserInviteMaxLifetimeDays |-> 3,
     DisableBruteForceLoginProtection |-> FALSE]

Init == InitWith({Instances}, {ClusterConfig}, {("a.png" :> (0 - 10))}, {TRUE})

Next ==
    \/ \E i \in Instances : RunStart(i)
    \/ \E i \in Instances : TickerFire(i)
    \/ \E i \in Instances : SelectTick(i)
    \/ \E i \in Instances : SelectDone(i)
    \/ \E i \in Instances : TickTmpFiles(i)
    \/ \E i \in Instances : TickSnapshots(i)
    \/ \E i \in Instances : TickDashboardVersions(i)
    \/ \E i \in Instances : TickUserInvites(i)
    \/ \E i \in Instances : TickLock(i)
    \/ \E i \in Instances : TickLockReturn(i)
    \/ \E i \in Instances : Cancel(i)
    \/ Advance

Spec == Init /\ [][Next]_vars

(***************************************************************************)
(* LiveSpec: the two instances of Spec, over an images directory that is  *)
(* empty, with the scheduling of the Go runtime.  A goroutine that can     *)
(* take a step takes it, every cleanup operation returns, and a select     *)
(* with several ready cases picks among them at random, so that a case     *)
(* that is ready again and again is taken in the end.                      *)
(***************************************************************************)
Step(i) ==
    \/ RunStart(i)
    \/ SelectTick(i)
    \/ TickTmpFiles(i)
    \/ TickSnapshots(i)
    \/ TickDashboardVersions(i)
    \/ TickUserInvites(i)
    \/ TickLock(i)
    \/ TickLockReturn(i)

LiveInit == InitWith({Instances}, {ClusterConfig}, {EmptyDir}, {TRUE})

LiveSpec ==
    /\ LiveInit /\ [][Next]_vars
    /\ \A i \in Instances : WF_vars(Step(i)) /\ SF_vars(SelectDone(i))

(***************************************************************************)
(* FileSpec: one instance, every temp-file lifetime, an images directory   *)
(* that may be missing, and a renderer that writes temp images while the   *)
(* service runs.                                                           *)
(***************************************************************************)
FileConfigs ==
    {c \in Configs : /\ c.UserInviteMaxLifetimeDays = 3
                     /\ ~c.DisableBruteForceLoginProtection}

FileInit == InitWith({{1}}, FileConfigs, InitDirs, BOOLEAN)

FileNext ==
    \/ \E i \in Instances : RunStart(i)
    \/ \E i \in Instances : TickerFire(i)
    \/ \E i \in Instances : SelectTick(i)
    \/ \E i \in Instances : TickTmpFiles(i)
    \/ \E i \in Instances : TickSnapshots(i)
    \/ \E i \in Instances : TickDashboardVersions(i)
    \/ \E i \in Instances : TickUserInvites(i)
    \/ \E i \in Instances : TickLock(i)
    \/ \E i \in Instances : TickLockReturn(i)
    \/ \E f \in Files : WriteFile(f)
    \/ Advance

FileSpec == FileInit /\ [][FileNext]_vars

(***************************************************************************)
(* StoreSpec: one instance, every invite lifetime, brute-force login       *)
(* protection on or off, and users that are invited while the service      *)
(* runs.                                                                   *)
(***************************************************************************)
StoreConfigs == {c \in Configs : c.TempDataLifetime = 10}

StoreInit == InitWith({{1}}, StoreConfigs, {("a.png" :> (0 - 10))}, {TRUE})

StoreNext ==
    \/ \E i \in Instances : RunStart(i)
    \/ \E i \in Instances : TickerFire(i)
    \/ \E i \in Instances : SelectTick(i)
    \/ \E i \in Instances : TickTmpFiles(i)
    \/ \E i \in Instances : TickSnapshots(i)
    \/ \E i \in Instances : TickDashboardVersions(i)
    \/ \E i \in Instances : TickUserInvites(i)
    \/ \E i \in Instances : TickLock(i)
    \/ \E i \in Instances : TickLockReturn(i)
    \/ \E r \in NewInvites : CreateInvite(r)
    \/ Advance

StoreSpec == StoreInit /\ [][StoreNext]_vars

(***************************************************************************)
(* Properties.                                                             *)
(***************************************************************************)
FiveSteps == <<"tmp", "snap", "dash", "invite", "lock">>

IsPrefix(a, b) == Len(a) <= Len(b) /\ \A k \in 1..Len(a) : a[k] = b[k]

\* The position of Run inside a tick, by the number of calls it has made.
PcAt(k) ==
    CASE k = 0 -> {"tmp"}
      [] k = 1 -> {"snap"}
      [] k = 2 -> {"dash"}
      [] k = 3 -> {"invite"}
      [] k = 4 -> {"lock"}
      [] OTHER -> {"lockret", "select", "done"}

\* C1: in every tick the operations are invoked in the order temp files,
\* snapshots, dashboard versions, user invites, lock-guarded login attempts,
\* each at most once, and each only when the one before it has returned: the
\* calls made so far in a tick are always a prefix of that order, Run stands
\* right behind the last of them, and a tick that is over has made all five.
C1_FixedOrder ==
    \A i \in Instances :
        /\ IsPrefix(trace[i], FiveSteps)
        /\ ticks[i] > 0 => pc[i] \in PcAt(Len(trace[i]))
        /\ (ticks[i] > 0 /\ pc[i] \in {"select", "done"}) => trace[i] = FiveSteps
        /\ \A o \in {"snap", "dash", "invite", "lock"} : calls[i][o] <= ticks[i]

\* An instance is through its second tick, all five calls made in order.
C1_Witness ==
    \E i \in Instances : ticks[i] = 2 /\ pc[i] = "select" /\ trace[i] = FiveSteps

LockErrorEntry ==
    [op |-> "lock", failed |-> TRUE, level |-> "error",
     log |-> "failed to lock and execute cleanup of old login attempts"]

\* C2: when LockAndExecute returns an error, deleteOldLoginAttempts is not
\* invoked in that tick, Run logs the error, does not call LockAndExecute
\* again in the tick, and is back in the select (it returns only for a
\* cancelled context).
C2_LockDenied ==
    \A i \in Instances :
        (lockErr[i] /\ pc[i] \in {"lockret", "select", "done"}) =>
            /\ bodyTick[i] < ticks[i]
            /\ calls[i]["lock"] = ticks[i]
            /\ pc[i] # "lockret" => lastOp[i] = LockErrorEntry
            /\ pc[i] = "done" => ctxErr[i] # "nil"

\* An instance was denied the lock in its first tick and is in its second.
C2_Witness ==
    \E i \in Instances :
        /\ ticks[i] = 2 /\ pc[i] = "lock" /\ lockErr[i]
        /\ bodyTick[i] = 0 /\ calls[i]["lock"] = 1

\* C3: the lease Run asks for equals the interval of its ticker, and of two
\* instances that go for the lock "delete old login attempts" inside one
\* lease window exactly one runs deleteOldLoginAttempts: the body never runs
\* less than a tick interval after its last run, and an instance is turned
\* away only while a run of the body is less than a tick interval old.
C3_OneExecutorPerLease ==
    [][ /\ LockLease = TickMinutes
        /\ login' # login => (login.by = 0 \/ now - login.at >= TickMinutes)
        /\ \A i \in Instances :
             (pc[i] = "lock" /\ pc'[i] # "lock" /\ lockErr'[i]) =>
                 /\ login' = login
                 /\ login.by # 0
                 /\ now - login.at < TickMinutes ]_vars

\* Both instances went for the lock in one lease window: one ran the body,
\* the other was turned away.
C3_Witness ==
    \E i, j \in Instances :
        /\ i # j
        /\ login.by = j /\ bodyTick[j] = ticks[j] /\ ~lockErr[j]
        /\ pc[i] = "lockret" /\ lockErr[i] /\ bodyTick[i] < ticks[i]
        /\ now - login.at < TickMinutes

\* C4: once the context of an instance is cancelled, its Run returns in the
\* end, and what it returns is the error of the context.
C4_CancelTerminates ==
    \A i \in Instances :
        (ctxErr[i] # "nil") ~> (pc[i] = "done" /\ ret[i] = CtxErrOf[i])

\* Both instances have returned, each with the error of its own context.
C4_Witness ==
    /\ \A i \in Instances : pc[i] = "done" /\ ret[i] = ctxErr[i]
    /\ ret[1] = "context canceled" /\ ret[2] = "context deadline exceeded"
    /\ ticks[1] > 0

\* What Run has called by the end of `n` whole ticks: the startup pass and n
\* passes over the temp files, and each other operation n times.
CalledAllOf(i, n) ==
    /\ calls[i]["tmp"] = n + 1
    /\ \A o \in {"snap", "dash", "invite", "lock"} : calls[i][o] = n

\* C5: cancellation is seen only between ticks.  Run returns from the select
\* and from nowhere else, and when it has returned every tick it began has
\* made all five calls, also the tick in which the context was cancelled.
C5_CancelBetweenTicks ==
    [][ \A i \in Instances :
          (pc'[i] = "done" /\ pc[i] # "done") =>
              /\ pc[i] = "select"
              /\ CalledAllOf(i, ticks[i])'
              /\ ticks[i] > 0 => trace'[i] = FiveSteps ]_vars

\* The context was cancelled in the middle of a tick, and Run returned after
\* the five calls of that tick.
C5_Witness ==
    \E i \in Instances :
        /\ pc[i] = "done" /\ cancelMid[i]
        /\ trace[i] = FiveSteps /\ CalledAllOf(i, ticks[i])

StepAfter(p) ==
    CASE p = "tmp" -> "snap"
      [] p = "snap" -> "dash"
      [] p = "dash" -> "invite"
      [] p = "invite" -> "lock"
      [] p = "lock" -> "lockret"
      [] OTHER -> "select"

\* C6: a failure of one operation of a tick keeps no later step of the tick
\* from being invoked and does not end the loop: when a call returns with a
\* failure (logged or returned), Run goes on to the next call of the tick,
\* and after the last one back to the select.
C6_FailureIsolated ==
    [][ \A i \in Instances :
          /\ (pc[i] \in {"tmp", "snap", "dash", "invite"} /\ pc'[i] # pc[i]
                /\ lastOp'[i].failed) => pc'[i] = StepAfter(pc[i])
          /\ (pc[i] = "lock" /\ pc'[i] # pc[i] /\ (lockErr'[i] \/ login'.failed))
                => pc'[i] = "lockret"
          /\ (pc[i] = "lockret" /\ pc'[i] # pc[i] /\ lockErr[i])
                => pc'[i] = "select" ]_vars

\* An instance was denied the lock in its first tick; it is in its second
\* tick, where the pass over the temp files has just failed and the
\* snapshots are next.
C6_Witness ==
    \E i \in Instances :
        /\ ticks[i] = 2 /\ pc[i] = "snap" /\ trace[i] = <<"tmp">>
        /\ lastOp[i].op = "tmp" /\ lastOp[i].failed
        /\ lockErr[i] /\ calls[i]["lock"] = 1 /\ calls[i]["snap"] = 1

\* C7: before its first tick Run has made one pass over the temp files, and
\* that before it created the ticker; it has called no other delete
\* operation and has not gone for the lock.
C7_StartupPassOnly ==
    \A i \in Instances :
        ticks[i] = 0 =>
            /\ calls[i]["tmp"] = IF pc[i] \in {"off", "start"} THEN 0 ELSE 1
            /\ \A o \in {"snap", "dash", "invite", "lock"} : calls[i][o] = 0
            /\ bodyTick[i] = 0 /\ login.by # i
            /\ pc[i] \in {"off", "start", "select", "done"}
            /\ pc[i] = "start" => ~tickC[i] /\ nextFire[i] = 0

\* An instance has made its startup pass and waits for its first tick.
C7_Witness ==
    \E i \in Instances :
        /\ pc[i] = "select" /\ ticks[i] = 0 /\ calls[i]["tmp"] = 1
        /\ ~tickC[i] /\ nextFire[i] > now /\ now > 0 /\ pass.outcome = "done"

\* The age a listed file had for the pass that listed it.
AgeInPass(f) == pass.at - pass.listed[f]

\* C8 as stated: with a lifetime L > 0 a pass selects a listed file iff its
\* age is at least L, and with L = 0 it selects none.
C8_SelectedFromLifetimeOn ==
    pass.outcome = "done" =>
        \A f \in DOMAIN pass.listed :
            f \in pass.toDelete <=>
                (cfg.TempDataLifetime > 0 /\ AgeInPass(f) >= cfg.TempDataLifetime)

\* C8, amended: with a lifetime L > 0 a pass selects a listed file iff its
\* age is greater than L (a file exactly L old is kept), and with L = 0 it
\* selects none.
C8_SelectedPastLifetime ==
    pass.outcome = "done" =>
        \A f \in DOMAIN pass.listed :
            f \in pass.toDelete <=>
                (cfg.TempDataLifetime > 0 /\ AgeInPass(f) > cfg.TempDataLifetime)

\* A pass listed a file exactly as old as the lifetime and kept it, and
\* selected an older one.
C8_Witness ==
    /\ pass.outcome = "done" /\ cfg.TempDataLifetime > 0
    /\ \E f \in DOMAIN pass.listed :
         AgeInPass(f) = cfg.TempDataLifetime /\ f \notin pass.toDelete
    /\ \E f \in DOMAIN pass.listed :
         AgeInPass(f) > cfg.TempDataLifetime /\ f \in pass.toDelete

\* C9: shouldCleanupTempFile is false for every file and time when the
\* lifetime is zero, and otherwise true iff modTime + lifetime is strictly
\* before now: for the files in the directory at the present time, and for
\* the files and the time of the last pass.
C9_ShouldCleanup ==
    /\ \A f \in DOMAIN files :
         shouldCleanupTempFile(files[f], now) =
             IF cfg.TempDataLifetime = 0 THEN FALSE
             ELSE files[f] + cfg.TempDataLifetime < now
    /\ pass.outcome = "done" =>
         pass.toDelete =
             IF cfg.TempDataLifetime = 0 THEN {}
             ELSE {f \in DOMAIN pass.listed :
                     pass.listed[f] + cfg.TempDataLifetime < pass.at}

\* Under a lifetime that is not zero a tick has just made its pass: it kept
\* a file for which modTime + lifetime is the present time and selected one
\* for which it is earlier.
C9_Witness ==
    /\ cfg.TempDataLifetime # 0 /\ ticks[1] > 0
    /\ pass.outcome = "done" /\ pass.at = now
    /\ \E f \in DOMAIN files :
         files[f] + cfg.TempDataLifetime = now /\ f \notin pass.toDelete
    /\ \E f \in pass.toDelete : pass.listed[f] + cfg.TempDataLifetime < now

\* Under a lifetime of zero a tick has made its pass over a directory with
\* files that are not new, and has selected none.
ZeroLifetimePass ==
    /\ cfg.TempDataLifetime = 0 /\ ticks[1] > 0 /\ pass.outcome = "done"
    /\ \E f \in DOMAIN pass.listed : AgeInPass(f) > 0
    /\ pass.toDelete = {}

PassStep == \E i \in Instances : calls'[i]["tmp"] # calls[i]["tmp"]

\* A pass is made in this step, at the very time of the pass before it, which
\* got as far as its loop over toDelete.
SecondPassStep == PassStep /\ pass.outcome = "done" /\ pass.at = now

\* C11 as stated: of two passes in succession with no file added in between,
\* the second removes nothing and tries to remove nothing.
C11_SecondPassIdle ==
    [][ SecondPassStep => (pass'.attempted = {} /\ files' = files) ]_vars

\* C11, amended: of two passes in succession (at one time) with no file
\* added in between, the second tries to remove exactly the files whose
\* removal failed in the first, and nothing when none failed.
C11_SecondPassRetriesFailed ==
    [][ (SecondPassStep /\ pass'.outcome = "done") =>
            /\ pass'.listed = Without(pass.listed, pass.toDelete \ pass.failed)
            /\ pass'.attempted = pass.failed
            /\ pass.failed = {} => files' = files ]_vars

\* Both instances have made the pass of their first tick at one time: the
\* first pass removed the stale file, the second found the directory empty
\* and had nothing to remove.
C11_Witness ==
    /\ \A i \in Instances :
         ticks[i] = 1 /\ calls[i]["tmp"] = 2 /\ pc[i] \notin {"tmp", "done"}
    /\ nextFire[1] = nextFire[2]
    /\ pass.outcome = "done" /\ pass.at = now
    /\ pass.listed = EmptyDir /\ pass.attempted = {} /\ files = EmptyDir

\* C12: a pass tries to remove every file it selected as stale.  The
\* removals that fail are logged, and every other selected file is gone
\* after the pass.
C12_EveryStaleFileTried ==
    pass.outcome = "done" =>
        /\ pass.attempted = {f \in DOMAIN pass.listed :
                               IF cfg.TempDataLifetime = 0 THEN FALSE
                               ELSE pass.listed[f] + cfg.TempDataLifetime < pass.at}
        /\ pass.failed \subseteq pass.attempted
        /\ pass.at = now =>
             \A f \in pass.attempted \ pass.failed :
                 f \notin DOMAIN files \/ files[f] > pass.listed[f]

\* A pass selected two files: the removal of one failed, the other is gone.
C12_Witness ==
    /\ pass.outcome = "done" /\ pass.at = now
    /\ Cardinality(pass.toDelete) = 2 /\ pass.attempted = pass.toDelete
    /\ \E f \in pass.failed : f \in DOMAIN files
    /\ \E f \in pass.attempted \ pass.failed : f \notin DOMAIN files

\* C13: the closing debug entry of a pass gives as "deleted" the number of
\* files selected as stale and as "kept" the number of listed files that
\* were not selected.
C13_LoggedCounts ==
    pass.outcome = "done" =>
        /\ pass.deleted = Cardinality(pass.toDelete)
        /\ pass.kept = Cardinality(DOMAIN pass.listed \ pass.toDelete)

\* One stale file and one fresh file listed, as in the scenario of C13: the
\* entry says deleted = 1 and kept = 2.
C13_ScenarioLogged ==
    /\ pass.outcome = "done"
    /\ Cardinality(DOMAIN pass.listed) = 2 /\ Cardinality(pass.toDelete) = 1
    /\ pass.deleted = 1 /\ pass.kept = 2

\* deleteExpiredUserInvites returns in this step and its DELETE was executed.
InviteDeleteStep(i) ==
    /\ pc[i] = "invite" /\ pc'[i] # "invite"
    /\ lastOp'[i].log # "starting cleanup of expired user invites"

\* C14: deleteExpiredUserInvites issues one delete with the cutoff now minus
\* UserInviteMaxLifetimeDays days: a row goes iff it was created at or before
\* the cutoff, and no row goes in any other way.  With 3 days the row created
\* 4 days ago goes and the row created 2 days ago stays.
C14_InviteCutoff ==
    [][ /\ \A i \in Instances :
             InviteDeleteStep(i) =>
                 \A r \in DOMAIN invites :
                     r \notin DOMAIN invites' <=>
                         invites[r] <= now - cfg.UserInviteMaxLifetimeDays * 24 * 60
        /\ (\A i \in Instances : ~InviteDeleteStep(i)) =>
               DOMAIN invites \subseteq DOMAIN invites' ]_vars

\* With 3 days the first tick has deleted the row created 4 days ago and the
\* row created exactly 3 days before it, and kept the rows created 2 days
\* ago and at the start.
C14_Witness ==
    /\ cfg.UserInviteMaxLifetimeDays = 3
    /\ lastOp[1].op = "invite" /\ ~lastOp[1].failed /\ now = TickMinutes
    /\ DOMAIN invites \cap {1, 2, 3, 4} = {2, 3}

\* C15: Run returns for a cancelled context and for nothing else.  When it
\* has returned the context is cancelled and the result is its error; while
\* the context is not cancelled Run has not returned, whatever failed.
C15_ReturnsOnlyOnCancel ==
    \A i \in Instances :
        /\ pc[i] = "done" <=> ret[i] # "running"
        /\ pc[i] = "done" => (ctxErr[i] # "nil" /\ ret[i] \in {CtxErrOf[j] : j \in Instances})
        /\ ctxErr[i] = "nil" => ret[i] = "running"

\* An instance whose context is not cancelled has been denied the lock, has
\* seen its pass over the temp files fail in the second tick, and is in the
\* select again.
C15_Witness ==
    \E i \in Instances :
        /\ ctxErr[i] = "nil" /\ ret[i] = "running"
        /\ ticks[i] = 2 /\ pc[i] = "select" /\ lockErr[i]
        /\ lastOp[i].failed /\ pass.outcome = "readerr" /\ pass.at = now

RowsOrErrorEntries ==
    {"Failed to delete expired snapshots", "Deleted expired snapshots",
     "Failed to delete expired dashboard versions",
     "Deleted old/expired dashboard versions",
     "failed to cleanup expired user invites",
     "cleanup of expired user invites done",
     "Problem deleting expired login attempts", "Deleted expired login attempts"}

\* C16: every delete operation a tick invokes ends with a log entry that
\* carries the affected rows or the error: an error entry when it failed, a
\* rows entry when it did not; so for a failed deletion of the user invites.
C16_EveryDeleteLogged ==
    /\ \A i \in Instances :
         lastOp[i].op \in {"snap", "dash", "invite"} =>
             /\ lastOp[i].log \in RowsOrErrorEntries
             /\ lastOp[i].level = IF lastOp[i].failed THEN "error" ELSE "debug"
    /\ login.by # 0 =>
             /\ login.log \in RowsOrErrorEntries
             /\ login.level = IF login.failed THEN "error" ELSE "debug"

\* C17: the pass over the temp files does not hang on the lock.  Every tick
\* of every instance makes it, whoever holds the lock and whatever
\* LockAndExecute returned before; the lock step leaves the directory, the
\* record of the pass and the other tables alone, and a denial differs from
\* a grant only in that deleteOldLoginAttempts does not run.
C17_TmpCleanupUnlocked ==
    [][ \A i \in Instances :
          /\ (pc[i] = "select" /\ pc'[i] \notin {"select", "done"}) => pc'[i] = "tmp"
          /\ (pc[i] = "tmp" /\ pc'[i] # "tmp") =>
                /\ pass'.at = now /\ pass'.outcome # "none"
                /\ calls'[i]["tmp"] = ticks[i] + 1
                /\ UNCHANGED <<lease, lockErr, login, bodyTick>>
          /\ (pc[i] = "lock" /\ pc'[i] # "lock") =>
                /\ UNCHANGED <<files, pass, invites, dirExists>>
                /\ lockErr'[i] => UNCHANGED <<login, bodyTick, lease>>
                /\ ~lockErr'[i] => (login'.by = i /\ bodyTick'[i] = ticks[i]) ]_vars

\* An instance that was denied the lock in its first tick, while the other
\* instance holds the lease, has made the pass of its second tick.
C17_Witness ==
    \E i, j \in Instances :
        /\ i # j /\ login.by = j /\ lockErr[i] /\ bodyTick[i] = 0
        /\ ticks[i] = 2 /\ pc[i] = "snap" /\ calls[i]["tmp"] = 3
        /\ pass.at = now /\ pass.outcome = "done"

\* C18: with brute-force login protection disabled a tick still takes the
\* lock and runs deleteOldLoginAttempts, which dispatches no command; with
\* the protection enabled it dispatches one whose cutoff is 10 minutes before
\* the time of the run.
C18_LoginAttemptsSwitch ==
    login.by # 0 =>
        /\ bodyTick[login.by] > 0
        /\ lease[LockName] = login.at + LeaseMinutes
        /\ cfg.DisableBruteForceLoginProtection =>
             (~login.dispatched /\ login.level = "none")
        /\ ~cfg.DisableBruteForceLoginProtection =>
             (login.dispatched /\ login.cutoff = login.at - 10)

\* With the protection disabled the second tick has taken the lock and run
\* the body, and nothing was dispatched.
C18_Witness ==
    /\ cfg.DisableBruteForceLoginProtection
    /\ ticks[1] = 2 /\ bodyTick[1] = 2 /\ pc[1] = "select" /\ ~lockErr[1]
    /\ login.by = 1 /\ login.at = now /\ ~login.dispatched
    /\ lease[LockName] > now

\* With the protection enabled a command with the cutoff now - 10 went out.
LoginCommandDispatched ==
    /\ ~cfg.DisableBruteForceLoginProtection
    /\ login.by = 1 /\ login.dispatched /\ login.at = now
    /\ login.cutoff = now - 10

\* C19: a pass that finds no images directory, or cannot list it, removes
\* nothing and returns, and the tick goes on with the snapshots and through
\* the other calls.
C19_UnreadableDirSkipped ==
    /\ [][ \A i \in Instances :
             (calls'[i]["tmp"] # calls[i]["tmp"]
                /\ pass'.outcome \in {"nodir", "readerr"}) =>
                 /\ files' = files
                 /\ pass'.attempted = {}
                 /\ pass'.outcome = "nodir" <=> ~dirExists
                 /\ pc[i] = "tmp" => pc'[i] = "snap" ]_vars
    /\ [](\A i \in Instances :
            (ticks[i] > 0 /\ pc[i] = "select") => trace[i] = FiveSteps)

\* The pass of the first tick could not list the directory: the stale file
\* is still there, and the tick has made its five calls.
C19_Witness ==
    /\ ticks[1] = 1 /\ pc[1] = "select" /\ trace[1] = FiveSteps
    /\ pass.outcome = "readerr" /\ pass.at = now
    /\ \E f \in DOMAIN files : shouldCleanupTempFile(files[f], now)

\* There is no images directory, and the tick has made its five calls.
MissingDirTick ==
    /\ ~dirExists /\ ticks[1] = 1 /\ pc[1] = "select" /\ trace[1] = FiveSteps
    /\ pass.outcome = "nodir" /\ pass.at = now

\* C20: a user-invite lifetime of zero days does not switch the cleanup of
\* invites off.  The cutoff is then the present time: every tick whose
\* DELETE is executed deletes every row created at or before now, and leaves
\* the table without any such row.
C20_ZeroDaysDeletesAll ==
    [][ \A i \in Instances :
          (cfg.UserInviteMaxLifetimeDays = 0 /\ InviteDeleteStep(i)) =>
              /\ \A r \in DOMAIN invites : invites[r] <= now => r \notin DOMAIN invites'
              /\ \A r \in DOMAIN invites' : invites'[r] > now ]_vars

\* With zero days the second tick has executed its DELETE with the cutoff
\* now, and no invite is left in the table.
C20_Witness ==
    /\ cfg.UserInviteMaxLifetimeDays = 0 /\ cfg.TempDataLifetime # 0
    /\ ticks[1] = 2 /\ lastOp[1].op = "invite" /\ ~lastOp[1].failed
    /\ invites = [r \in {} |-> 0]
    /\ calls[1]["invite"] = 2

====
